---- MODULE Spec2Model ----
(***************************************************************************)
(* The MeshAudio session broker and relay router (src/meshaudio.js,        *)
(* createMeshAudioPlugin) as a state machine.  Node runs every handler to  *)
(* completion on one thread, so each HTTP handler, WebSocket event and     *)
(* timer callback is one atomic action.                                    *)
(*                                                                         *)
(* Library facts the handlers rely on (package ws):                        *)
(*   - ws.close(code, reason) moves an OPEN socket to CLOSING and sends a  *)
(*     close frame; inbound messages are still emitted until the peer      *)
(*     answers, and the 'close' event comes later;                         *)
(*   - ws.terminate() destroys the socket: readyState is CLOSING, nothing  *)
(*     more is read from it, and the 'close' event comes later.  The model *)
(*     names that state ENDED to tell the two apart;                       *)
(*   - ws.send() on a socket that is not OPEN transmits nothing.           *)
(*                                                                         *)
(* The browser side (src/web/meshaudio.js): one MeshAudioClient with its   *)
(* MeshAudioPlayer.  Times are whole milliseconds.  AudioDecoder.flush()   *)
(* emits the outputs of the queued chunks; the output callback runs as a   *)
(* task of its own, after the handler that called decode() or flush().     *)
(***************************************************************************)
EXTENDS Integers, Sequences, FiniteSets, TLC

\* ---------------------------------------------------------------- bounds
MaxDevices  == 1    \* device identifiers 1..MaxDevices
MaxSessions == 2    \* tokens ever issued (uuids are never reused)
MaxConns    == 3    \* WebSocket objects alive at the same time
MaxTime     == 2    \* the clock runs 0..MaxTime
MaxFrames   == 3    \* binary frames the devices push in one run
MaxChunks   == 3    \* frames one player is given in one run
MaxClock    == 160  \* the AudioContext clock runs 0..MaxClock ms

\* ------------------------------------------------------ program constants
tokenTtlMs            == 1     \* options.tokenTtlMs, in clock ticks
maxListenersTwo       == 2     \* a plugin configured for two listeners
maxListenersPerDevice == 1     \* options.maxListenersPerDevice
AUDIO_MARKER          == 1     \* data[0] !== 0x1
agentSecret           == "CHANGE_ME"

Undefined  == 0                \* Map.get of a missing key, a missing query parameter
Null       == -1               \* baseTimestampUs = null
jitterMs   == 80               \* this.jitterSec = 0.08, in ms
DeviceIds  == 1..MaxDevices
SessionIds == 1..MaxSessions
Conns      == 1..MaxConns

VARIABLES
    now,                    \* Date.now()
    issued,                 \* number of sessionIds handed out so far
    sessions,               \* Map sessionId -> {deviceId, token, expiresAt}
    agents,                 \* Map deviceId -> ws
    viewers,                \* Map sessionId -> ws
    activeSessionByDevice,  \* Map deviceId -> sessionId
    heartbeats,             \* Set of ws
    conns,                  \* the WebSocket objects: kind, readyState, closure variables, isAlive
    emitted,                \* per device, the binary frames it pushed, in arrival order
    received,               \* per ws, the binary frames transmitted to it, in order
    logging,                \* whether this run keeps the frame log below
    sent,                   \* what the last handler transmitted: <<ws, message>> in order
    \* the browser side (src/web/meshaudio.js)
    currentTime,            \* ctx.currentTime of the player's AudioContext, in ms
    playHead,               \* MeshAudioPlayer.playHead, in ms
    baseTimestampUs,        \* MeshAudioPlayer.baseTimestampUs, in microseconds, or Null
    playStart,              \* MeshAudioPlayer.playStart, in ms
    decoding,               \* chunks handed to decoder.decode() whose output is still to come
    started,                \* the last src.start(startAt) call, the n-th of the player
    state,                  \* MeshAudioClient.state
    clientWs,               \* MeshAudioClient.ws: "null", or the socket's "open" / "closed"
    reported                \* the onStatus(state) calls so far, each with the event handled

browser == <<currentTime, playHead, baseTimestampUs, playStart, decoding, started,
             state, clientWs, reported>>

server == <<now, issued, sessions, agents, viewers, activeSessionByDevice,
            heartbeats, conns, logging, emitted, received, sent>>

vars == <<now, issued, sessions, agents, viewers, activeSessionByDevice,
          heartbeats, conns, logging, emitted, received, sent, browser>>

\* ------------------------------------------------------------ JS Map
MapHas(m, k)    == k \in DOMAIN m
MapGet(m, k)    == IF k \in DOMAIN m THEN m[k] ELSE Undefined
MapSet(m, k, v) == [x \in (DOMAIN m) \cup {k} |-> IF x = k THEN v ELSE m[x]]
MapDelete(m, k) == [x \in (DOMAIN m) \ {k} |-> m[x]]
EmptyMap        == [x \in {} |-> Undefined]

\* ------------------------------------------------------------ messages
Msg(type, arg, sid, data) == [type |-> type, arg |-> arg, sid |-> sid, data |-> data]
NoConn     == [kind |-> "none", state |-> "CLOSED", deviceId |-> Undefined,
               sessionId |-> Undefined, isAlive |-> FALSE]

\* ws.send(m): transmitted only while readyState is OPEN
Transmit(cs, c, m) == IF cs[c].state = "OPEN" THEN << <<c, m>> >> ELSE << >>

\* ws.terminate()
Terminate(cs, c) ==
    IF cs[c].state \in {"OPEN", "CLOSING"}
    THEN [cs EXCEPT ![c].state = "ENDED"]
    ELSE cs

\* the ws object of a new connection: the lowest unused slot
FreeConns == {c \in Conns : conns[c].kind = "none"}
NewConn   == CHOOSE c \in FreeConns : \A x \in FreeConns : c <= x

\* the binary frames among the transmissions of one handler, per ws
Deliveries(out, c) ==
    SelectSeq(out, LAMBDA e : e[1] = c /\ e[2].type = "binary")
FrameData(out) == [i \in 1..Len(out) |-> out[i][2].data]
Record(out) ==
    [c \in Conns |-> received[c] \o FrameData(Deliveries(out, c))]

\* new MeshAudioClient(...) and init(): an idle client, a player with a
\* context and a decoder that has scheduled nothing
InitBrowser ==
    /\ currentTime = 0
    /\ playHead = 0
    /\ baseTimestampUs = Null
    /\ playStart = 0
    /\ decoding = << >>
    /\ started = [n |-> 0, startAt |-> 0, duration |-> 0, timestamp |-> 0, flushed |-> FALSE]
    /\ state = "idle"
    /\ clientWs = "null"
    /\ reported = {}

\* the state after createMeshAudioPlugin(): empty Maps, no connection
InitState(log) ==
    /\ InitBrowser
    /\ now = 0
    /\ issued = 0
    /\ sessions = EmptyMap
    /\ agents = EmptyMap
    /\ viewers = EmptyMap
    /\ activeSessionByDevice = EmptyMap
    /\ heartbeats = {}
    /\ conns = [c \in Conns |-> NoConn]
    /\ logging = log
    /\ emitted = [d \in DeviceIds |-> << >>]
    /\ received = [c \in Conns |-> << >>]
    /\ sent = << >>

Init == InitState(FALSE)

\* Date.now() advances
Tick ==
    /\ now < MaxTime
    /\ now' = now + 1
    /\ sent' = << >>
    /\ UNCHANGED <<browser, issued, sessions, agents, viewers, activeSessionByDevice,
                   heartbeats, conns, logging, emitted, received>>

\* POST /meshaudio/token (requireAuth, then the handler); the HTTP response
\* is not part of sent
IssueToken(authed, deviceId) ==
    /\ sent' = << >>
    /\ UNCHANGED <<browser, now, agents, viewers, activeSessionByDevice, heartbeats,
                   conns, logging, emitted, received>>
    /\ IF ~authed
       THEN UNCHANGED <<issued, sessions>>                \* 401
       ELSE IF deviceId = Undefined
       THEN UNCHANGED <<issued, sessions>>                \* 400
       ELSE /\ issued < MaxSessions
            /\ LET sessionId == issued + 1      \* uuidv4(): fresh
                   token     == issued + 1      \* uuidv4(): fresh, known to the requester only
               IN /\ issued' = sessionId
                  /\ sessions' = MapSet(sessions, sessionId,
                                        [deviceId |-> deviceId, token |-> token,
                                         expiresAt |-> now + tokenTtlMs])

\* attachHeartbeat(ws): isAlive = true (heartbeats.add(ws) is in the callers)
attachHeartbeat(cs, c) == [cs EXCEPT ![c].isAlive = TRUE]

\* a test that asks for a deviceId only
AgentUnauthorizedNoSecret(deviceId, token) ==
    deviceId = Undefined

\* the test that rejects a device connection
AgentUnauthorized(deviceId, token) ==
    deviceId = Undefined \/ (agentSecret # "" /\ token # agentSecret)

\* agentWss 'connection'
onAgentConnected(deviceId, token) ==
    /\ UNCHANGED <<browser, now, issued, sessions, viewers, activeSessionByDevice,
                   logging, emitted, received>>
    /\ IF AgentUnauthorized(deviceId, token)
       THEN /\ sent' = << <<Undefined, Msg("close", "unauthorized", Undefined, << >>)>> >>
            /\ UNCHANGED <<agents, heartbeats, conns>>
       ELSE /\ FreeConns # {}
            /\ LET ws       == NewConn
                   existing == MapGet(agents, deviceId)
                   opened   == [conns EXCEPT ![ws] =
                                  [kind |-> "agent", state |-> "OPEN", deviceId |-> deviceId,
                                   sessionId |-> Undefined, isAlive |-> FALSE]]
                   cs       == IF existing # Undefined THEN Terminate(opened, existing)
                               ELSE opened
               IN /\ agents' = MapSet(agents, deviceId, ws)
                  /\ conns' = attachHeartbeat(cs, ws)
                  /\ heartbeats' = heartbeats \cup {ws}
                  /\ sent' = << >>

\* the test that accepts a viewer connection
SessionValid(sessionId, token) ==
    /\ sessionId # Undefined
    /\ MapHas(sessions, sessionId)
    /\ sessions[sessionId].token = token
    /\ ~(sessions[sessionId].expiresAt < now)

\* viewerWss 'connection'
onViewerConnected(sessionId, token) ==
    /\ UNCHANGED <<browser, now, issued, sessions, agents, activeSessionByDevice,
                   logging, emitted>>
    /\ IF ~SessionValid(sessionId, token)
       THEN /\ sent' = << <<Undefined, Msg("close", "invalid session", Undefined, << >>)>> >>
            /\ UNCHANGED <<viewers, heartbeats, conns, received>>
       ELSE /\ FreeConns # {}
            /\ LET ws       == NewConn
                   deviceId == sessions[sessionId].deviceId
                   opened   == [conns EXCEPT ![ws] =
                                  [kind |-> "viewer", state |-> "OPEN", deviceId |-> deviceId,
                                   sessionId |-> sessionId, isAlive |-> FALSE]]
               IN /\ viewers' = MapSet(viewers, sessionId, ws)
                  /\ conns' = attachHeartbeat(opened, ws)
                  /\ heartbeats' = heartbeats \cup {ws}
                  /\ sent' = Transmit(opened, ws,
                                Msg("viewer_connected",
                                    IF MapHas(agents, deviceId) THEN "online" ELSE "offline",
                                    sessionId, << >>))
                  /\ received' = [received EXCEPT ![ws] = << >>]

\* sendToAgent(deviceId, payload): the transmissions, empty when it returns false
sendToAgent(cs, deviceId, payload) ==
    LET ws == MapGet(agents, deviceId)
    IN IF ws = Undefined \/ cs[ws].state # "OPEN"
       THEN << >>
       ELSE << <<ws, payload>> >>

\* the guard of the 'start' branch that refuses a second listener
ListenerConflict(current, sessionId) ==
    current # Undefined /\ current # sessionId /\ maxListenersPerDevice <= 1

\* viewer ws 'message' with action 'start'
ViewerStart(ws, mode) ==
    LET deviceId  == conns[ws].deviceId
        sessionId == conns[ws].sessionId
        current   == MapGet(activeSessionByDevice, deviceId)
    IN IF ListenerConflict(current, sessionId)
       THEN /\ sent' = Transmit(conns, ws,
                          Msg("error", "another listener is active", Undefined, << >>))
            /\ UNCHANGED activeSessionByDevice
       ELSE /\ activeSessionByDevice' = MapSet(activeSessionByDevice, deviceId, sessionId)
            /\ LET out == sendToAgent(conns, deviceId,
                              Msg("start", IF mode = "" THEN "wss" ELSE mode,
                                  sessionId, << >>))
               IN sent' = IF out = << >>       \* sendToAgent returned false
                          THEN Transmit(conns, ws,
                                   Msg("error", "agent not connected", Undefined, << >>))
                          ELSE out

\* a 'stop' branch that tells the device but keeps the pairing
ViewerStopKeepsPairing(ws) ==
    /\ sent' = sendToAgent(conns, conns[ws].deviceId, Msg("stop", "", Undefined, << >>))
    /\ UNCHANGED activeSessionByDevice

\* viewer ws 'message' with action 'stop'
ViewerStop(ws) ==
    LET deviceId == conns[ws].deviceId
    IN /\ activeSessionByDevice' = MapDelete(activeSessionByDevice, deviceId)
       /\ sent' = sendToAgent(conns, deviceId, Msg("stop", "", Undefined, << >>))

\* viewer ws 'message' with action 'status'
ViewerStatus(ws) ==
    /\ sent' = sendToAgent(conns, conns[ws].deviceId, Msg("status", "", Undefined, << >>))
    /\ UNCHANGED activeSessionByDevice

\* viewer ws 'message': action is start, stop, status, or anything else
\* (unparseable JSON and unknown actions are ignored)
onViewerMessage(ws, action, mode) ==
    /\ conns[ws].kind = "viewer"
    /\ conns[ws].state \in {"OPEN", "CLOSING"}
    /\ CASE action = "start"  -> ViewerStart(ws, mode)
         [] action = "stop"   -> ViewerStop(ws)
         [] action = "status" -> ViewerStatus(ws)
         [] OTHER             -> sent' = << >> /\ UNCHANGED activeSessionByDevice
    /\ UNCHANGED <<browser, now, issued, sessions, agents, viewers, heartbeats, conns,
                   logging, emitted, received>>

\* a router that forwards every non-empty frame, audio or not
forwardAudioAnyMarker(deviceId, data) ==
    IF Len(data) < 1
    THEN << >>
    ELSE LET sessionId == MapGet(activeSessionByDevice, deviceId)
         IN IF sessionId = Undefined
            THEN << >>
            ELSE LET viewer == MapGet(viewers, sessionId)
                 IN IF viewer = Undefined \/ conns[viewer].state # "OPEN"
                    THEN << >>
                    ELSE << <<viewer, Msg("binary", "", Undefined, data)>> >>

\* a router that transmits each forwarded frame twice
forwardAudioTwice(deviceId, data) ==
    IF Len(data) < 1 \/ data[1] # AUDIO_MARKER
    THEN << >>
    ELSE LET sessionId == MapGet(activeSessionByDevice, deviceId)
         IN IF sessionId = Undefined
            THEN << >>
            ELSE LET viewer == MapGet(viewers, sessionId)
                 IN IF viewer = Undefined \/ conns[viewer].state # "OPEN"
                    THEN << >>
                    ELSE << <<viewer, Msg("binary", "", Undefined, data)>>,
                            <<viewer, Msg("binary", "", Undefined, data)>> >>

\* forwardAudio(deviceId, data): the transmissions
forwardAudio(deviceId, data) ==
    IF Len(data) < 1 \/ data[1] # AUDIO_MARKER
    THEN << >>
    ELSE LET sessionId == MapGet(activeSessionByDevice, deviceId)
         IN IF sessionId = Undefined
            THEN << >>
            ELSE LET viewer == MapGet(viewers, sessionId)
                 IN IF viewer = Undefined \/ conns[viewer].state # "OPEN"
                    THEN << >>
                    ELSE << <<viewer, Msg("binary", "", Undefined, data)>> >>

\* the frames a device can push: empty, non-audio, audio; the second byte
\* numbers the frame, so that the frames of a logged run are all distinct
FramesOf(n) == { << >>, <<2, n>>, <<AUDIO_MARKER, n>> }
NextFrameNo(deviceId) == IF logging THEN Len(emitted[deviceId]) + 1 ELSE 1

\* agent ws 'message' with isBinary
onAgentBinary(ws, data) ==
    /\ conns[ws].kind = "agent"
    /\ conns[ws].state = "OPEN"
    /\ logging => Len(emitted[conns[ws].deviceId]) < MaxFrames
    /\ data \in FramesOf(NextFrameNo(conns[ws].deviceId))
    /\ LET deviceId == conns[ws].deviceId
           out      == forwardAudio(deviceId, data)
       IN /\ sent' = out
          /\ emitted' = IF logging THEN [emitted EXCEPT ![deviceId] = Append(@, data)]
                        ELSE emitted
          /\ received' = IF logging THEN Record(out) ELSE received
    /\ UNCHANGED <<browser, now, issued, sessions, agents, viewers, activeSessionByDevice,
                   heartbeats, conns, logging>>

\* agent ws 'message' with text: forwarded to the paired viewer when it parses
onAgentText(ws, parses) ==
    /\ conns[ws].kind = "agent"
    /\ conns[ws].state = "OPEN"
    /\ LET deviceId  == conns[ws].deviceId
           sessionId == MapGet(activeSessionByDevice, deviceId)
       IN sent' = IF parses /\ sessionId # Undefined /\ MapHas(viewers, sessionId)
                  THEN Transmit(conns, viewers[sessionId],
                                Msg("text", "agent", Undefined, << >>))
                  ELSE << >>
    /\ UNCHANGED <<browser, now, issued, sessions, agents, viewers, activeSessionByDevice,
                   heartbeats, conns, logging, emitted, received>>

\* a close handler that forgets the pairing of its device
onAgentCloseKeepsPairing(ws) ==
    /\ conns[ws].kind = "agent"
    /\ LET deviceId      == conns[ws].deviceId
           activeSession == MapGet(activeSessionByDevice, deviceId)
           viewer        == MapGet(viewers, activeSession)
       IN /\ heartbeats' = heartbeats \ {ws}
          /\ agents' = MapDelete(agents, deviceId)
          /\ UNCHANGED activeSessionByDevice
          /\ sent' = IF activeSession # Undefined /\ viewer # Undefined
                     THEN Transmit(conns, viewer,
                                   Msg("status", "agent_disconnected", Undefined, << >>))
                     ELSE << >>
    /\ conns' = [conns EXCEPT ![ws] = NoConn]
    /\ UNCHANGED <<browser, now, issued, sessions, viewers, logging, emitted, received>>

\* agent ws 'close': attachHeartbeat's listener, then onAgentConnected's
onAgentClose(ws) ==
    /\ conns[ws].kind = "agent"
    /\ LET deviceId      == conns[ws].deviceId
           activeSession == MapGet(activeSessionByDevice, deviceId)
           viewer        == MapGet(viewers, activeSession)
       IN /\ heartbeats' = heartbeats \ {ws}
          /\ agents' = MapDelete(agents, deviceId)
          /\ activeSessionByDevice' = MapDelete(activeSessionByDevice, deviceId)
          /\ sent' = IF activeSession # Undefined /\ viewer # Undefined
                     THEN Transmit(conns, viewer,
                                   Msg("status", "agent_disconnected", Undefined, << >>))
                     ELSE << >>
    /\ conns' = [conns EXCEPT ![ws] = NoConn]
    /\ UNCHANGED <<browser, now, issued, sessions, viewers, logging, emitted, received>>

\* viewer ws 'close': attachHeartbeat's listener, then onViewerConnected's
onViewerClose(ws) ==
    /\ conns[ws].kind = "viewer"
    /\ LET deviceId      == conns[ws].deviceId
           sessionId     == conns[ws].sessionId
           activeSession == MapGet(activeSessionByDevice, deviceId)
       IN /\ heartbeats' = heartbeats \ {ws}
          /\ viewers' = MapDelete(viewers, sessionId)
          /\ IF activeSession = sessionId
             THEN /\ activeSessionByDevice' = MapDelete(activeSessionByDevice, deviceId)
                  /\ sent' = sendToAgent(conns, deviceId, Msg("stop", "", Undefined, << >>))
             ELSE /\ UNCHANGED activeSessionByDevice
                  /\ sent' = << >>
    /\ conns' = [conns EXCEPT ![ws] = NoConn]
    /\ received' = [received EXCEPT ![ws] = << >>]
    /\ UNCHANGED <<browser, now, issued, sessions, agents, logging, emitted>>

\* the socket ends without the server asking (the peer sent its close frame,
\* or the transport failed): readyState is CLOSING until 'close' is emitted
onSocketEnd(ws) ==
    /\ conns[ws].kind # "none"
    /\ conns[ws].state = "OPEN"
    /\ conns' = [conns EXCEPT ![ws].state = "ENDED"]
    /\ sent' = << >>
    /\ UNCHANGED <<browser, now, issued, sessions, agents, viewers, activeSessionByDevice,
                   heartbeats, logging, emitted, received>>

\* ws 'pong'
onPong(ws) ==
    /\ conns[ws].kind # "none"
    /\ conns[ws].state \in {"OPEN", "CLOSING"}
    /\ conns[ws].isAlive = FALSE     \* a pong that finds isAlive true changes nothing
    /\ conns' = [conns EXCEPT ![ws].isAlive = TRUE]
    /\ sent' = << >>
    /\ UNCHANGED <<browser, now, issued, sessions, agents, viewers, activeSessionByDevice,
                   heartbeats, logging, emitted, received>>

\* a monitor that probes but never terminates
pingAllKeepsSilent ==
    /\ conns' = [c \in Conns |->
                   IF c \notin heartbeats THEN conns[c]
                   ELSE [conns[c] EXCEPT !.isAlive = FALSE]]
    /\ sent' = << >>
    /\ UNCHANGED <<browser, now, issued, sessions, agents, viewers, activeSessionByDevice,
                   heartbeats, logging, emitted, received>>

\* pingAll(): the timer callback
pingAll ==
    /\ conns' = [c \in Conns |->
                   IF c \notin heartbeats THEN conns[c]
                   ELSE IF conns[c].isAlive = FALSE THEN Terminate(conns, c)[c]
                   ELSE [conns[c] EXCEPT !.isAlive = FALSE]]
    /\ heartbeats' = {c \in heartbeats : conns[c].isAlive # FALSE}
    /\ sent' = << >>                \* pings are not recorded
    /\ UNCHANGED <<browser, now, issued, sessions, agents, viewers, activeSessionByDevice,
                   logging, emitted, received>>

\* ws.close(code, reason): an OPEN socket sends its close frame and is CLOSING
Close(cs, c) == IF cs[c].state = "OPEN" THEN [cs EXCEPT ![c].state = "CLOSING"] ELSE cs

\* a round that removes the session but leaves its pairing to the
\* viewer's close handler
SweepOneKeepsPairing(st, sessionId) ==
    IF ~(st.sessions[sessionId].expiresAt < now)
    THEN st
    ELSE LET viewer  == MapGet(viewers, sessionId)
             notice  == IF viewer # Undefined
                        THEN Transmit(st.conns, viewer,
                                      Msg("close", "session expired", Undefined, << >>))
                        ELSE << >>
         IN [conns    |-> IF viewer # Undefined THEN Close(st.conns, viewer) ELSE st.conns,
             active   |-> st.active,
             sessions |-> MapDelete(st.sessions, sessionId),
             sent     |-> st.sent \o notice]

\* one round of cleanupExpiredSessions' loop, on the state st the rounds before left
SweepOne(st, sessionId) ==
    IF ~(st.sessions[sessionId].expiresAt < now)
    THEN st
    ELSE LET session == st.sessions[sessionId]
             viewer  == MapGet(viewers, sessionId)
             notice  == IF viewer # Undefined
                        THEN Transmit(st.conns, viewer,
                                      Msg("close", "session expired", Undefined, << >>))
                        ELSE << >>
             cs      == IF viewer # Undefined THEN Close(st.conns, viewer) ELSE st.conns
             paired  == MapGet(st.active, session.deviceId) = sessionId
         IN [conns    |-> cs,
             active   |-> IF paired THEN MapDelete(st.active, session.deviceId)
                          ELSE st.active,
             sessions |-> MapDelete(st.sessions, sessionId),
             sent     |-> st.sent \o notice \o
                          (IF paired
                           THEN sendToAgent(cs, session.deviceId,
                                            Msg("stop", "", Undefined, << >>))
                           ELSE << >>)]

\* the loop over the sessions Map, in insertion order (sessionIds ascend)
RECURSIVE SweepFrom(_, _)
SweepFrom(st, sessionId) ==
    IF sessionId > MaxSessions THEN st
    ELSE SweepFrom(IF MapHas(st.sessions, sessionId) THEN SweepOne(st, sessionId) ELSE st,
                   sessionId + 1)

\* cleanupExpiredSessions(): the timer callback
cleanupExpiredSessions ==
    LET st == SweepFrom([conns |-> conns, active |-> activeSessionByDevice,
                         sessions |-> sessions, sent |-> << >>], 1)
    IN /\ conns' = st.conns
       /\ activeSessionByDevice' = st.active
       /\ sessions' = st.sessions
       /\ sent' = st.sent
       /\ UNCHANGED <<browser, now, issued, agents, viewers, heartbeats, logging, emitted, received>>

\* ------------------------------------------------------------ the player
\* the AudioContext clock advances
Advance(dt) ==
    /\ currentTime + dt <= MaxClock
    /\ currentTime' = currentTime + dt
    /\ UNCHANGED <<server, playHead, baseTimestampUs, playStart, decoding, started,
                   state, clientWs, reported>>

\* MeshAudioPlayer.enqueue(opusPayload, timestampMs): the chunk's timestamp is
\* in microseconds; decode() queues it, the output comes later
enqueue(timestampMs) ==
    decoding' = Append(decoding, [timestamp |-> timestampMs * 1000, flushed |-> FALSE])

\* an event a handler of the client is given: a text message of the server,
\* or a local event
Event(kind) == Msg(kind, "", Undefined, << >>)

\* setState(state), called while handling event: onStatus(state) is the
\* report the page gets
setState(event, st) ==
    /\ state' = st
    /\ reported' = reported \cup {<<event, st>>}

\* a binary WebSocket message: byteLength, type byte, timestamp field
Buffers(stamps) ==
    {[byteLength |-> 5, type |-> 1, timestampMs |-> 0],
     [byteLength |-> 13, type |-> 2, timestampMs |-> 0]}
      \cup {[byteLength |-> 13, type |-> 1, timestampMs |-> t] : t \in stamps}

\* MeshAudioClient.handleBinary(buffer), from ws.onmessage
handleBinary(buffer) ==
    /\ clientWs = "open"
    /\ IF buffer.byteLength < 13 \/ buffer.type # 1
       THEN UNCHANGED <<decoding, state, reported>>
       ELSE /\ Len(decoding) + started.n < MaxChunks
            /\ enqueue(buffer.timestampMs)
            /\ IF state # "streaming"
               THEN setState(Event("binary"), "streaming")
               ELSE UNCHANGED <<state, reported>>
    /\ UNCHANGED <<server, currentTime, playHead, baseTimestampUs, playStart, started,
                   clientWs>>

\* the times of one decoded frame, as handleDecoded computes them
\* (seconds in the source, ms here: relSeconds = microseconds / 1_000_000)
FirstOfStream     == baseTimestampUs = Null
BaseOf(ts)        == IF FirstOfStream THEN ts ELSE baseTimestampUs
PlayStartOf       == IF FirstOfStream THEN currentTime + jitterMs ELSE playStart
PlayHeadOf        == IF FirstOfStream THEN PlayStartOf ELSE playHead
Max3(a, b, c)     == IF a >= b /\ a >= c THEN a ELSE IF b >= c THEN b ELSE c
TargetTime(ts)    == PlayStartOf + ((ts - BaseOf(ts)) \div 1000)
\* a schedule that ignores the play head
StartAtIgnoresPlayHead(ts) == Max3(currentTime, currentTime, TargetTime(ts))
StartAt(ts)       == Max3(currentTime, PlayHeadOf, TargetTime(ts))

\* MeshAudioPlayer.handleDecoded(audioData): the decoder's output callback for
\* the oldest queued chunk; duration is audioBuffer.duration, in ms
handleDecoded(duration) ==
    /\ decoding # << >>
    /\ LET audioData   == Head(decoding)
           timestampUs == audioData.timestamp
       IN /\ baseTimestampUs' = BaseOf(timestampUs)
          /\ playStart' = PlayStartOf
          /\ playHead' = StartAt(timestampUs) + duration
          /\ started' = [n |-> started.n + 1,
                         startAt |-> StartAt(timestampUs),
                         duration |-> duration,
                         timestamp |-> timestampUs,
                         flushed |-> audioData.flushed]
    /\ decoding' = Tail(decoding)
    /\ UNCHANGED <<server, currentTime, state, clientWs, reported>>

\* MeshAudioPlayer.reset(): decoder.flush() asks for the outputs of the queued
\* chunks, which still come; the fields are reset at once
reset ==
    /\ decoding' = [i \in 1..Len(decoding) |-> [decoding[i] EXCEPT !.flushed = TRUE]]
    /\ playHead' = currentTime
    /\ baseTimestampUs' = Null
    /\ playStart' = 0

\* ------------------------------------------------------------ the client
\* MeshAudioClient.start(): the token request, then openWebSocket and
\* setState('starting'); a failed request throws before either.  The page
\* calls it when the state is idle or error.
start(tokenOk) ==
    /\ state \in {"idle", "error"}
    /\ IF tokenOk
       THEN /\ clientWs' = "open"
            /\ setState(Event("start"), "starting")
       ELSE UNCHANGED <<clientWs, state, reported>>
    /\ UNCHANGED <<server, currentTime, playHead, baseTimestampUs, playStart,
                   decoding, started>>

\* MeshAudioClient.stop(): send stop, close and drop the socket, reset the
\* player, setState('idle')
stop ==
    /\ clientWs' = "null"
    /\ reset
    /\ setState(Event("stop"), "idle")
    /\ UNCHANGED <<server, currentTime, started>>

\* MeshAudioClient.handleText(text), from ws.onmessage, with an onError
\* callback installed (as the page's mount does); parsed is FALSE for text
\* that JSON.parse rejects
handleText(msg, parsed) ==
    /\ clientWs = "open"
    /\ IF parsed /\ msg.type = "status"
       THEN setState(msg, IF msg.arg = "" THEN "unknown" ELSE msg.arg)
       ELSE IF parsed /\ msg.type = "error"
       THEN setState(msg, "error")
       ELSE UNCHANGED <<state, reported>>
    /\ UNCHANGED <<server, currentTime, playHead, baseTimestampUs, playStart,
                   decoding, started, clientWs>>

\* ws.onerror
onerror ==
    /\ clientWs = "open"
    /\ setState(Event("onerror"), "error")
    /\ UNCHANGED <<server, currentTime, playHead, baseTimestampUs, playStart,
                   decoding, started, clientWs>>

\* ws.onclose
onclose ==
    /\ clientWs = "open"
    /\ clientWs' = "closed"
    /\ setState(Event("onclose"), "idle")
    /\ UNCHANGED <<server, currentTime, playHead, baseTimestampUs, playStart,
                   decoding, started>>

\* ------------------------------------------------------- specifications
ViewerActions == {"start", "stop", "status", "other"}
Modes         == {"", "udp"}
AllFrames     == UNION {FramesOf(n) : n \in 1..MaxFrames}

\* every handler of the broker but the liveness monitor's; a socket the
\* monitor terminates is in the state onSocketEnd leaves it in
Next ==
    \/ Tick
    \/ \E authed \in BOOLEAN, d \in DeviceIds \cup {Undefined} : IssueToken(authed, d)
    \/ \E d \in DeviceIds \cup {Undefined}, t \in {agentSecret, "bad"} : onAgentConnected(d, t)
    \/ \E s \in SessionIds \cup {Undefined}, t \in SessionIds \cup {Undefined} :
          onViewerConnected(s, t)
    \/ \E ws \in Conns, a \in ViewerActions, m \in Modes : onViewerMessage(ws, a, m)
    \/ \E ws \in Conns, data \in AllFrames : onAgentBinary(ws, data)
    \/ \E ws \in Conns, parses \in BOOLEAN : onAgentText(ws, parses)
    \/ \E ws \in Conns : onAgentClose(ws)
    \/ \E ws \in Conns : onViewerClose(ws)
    \/ \E ws \in Conns : onSocketEnd(ws)
    \/ cleanupExpiredSessions

Spec == Init /\ [][Next]_vars

\* the relay with the frame log kept, within the lifetime of its sessions:
\* the handlers that connect, pair, forward and disconnect
NextFrames ==
    \/ \E d \in DeviceIds : IssueToken(TRUE, d)
    \/ \E d \in DeviceIds : onAgentConnected(d, agentSecret)
    \/ \E s \in SessionIds : onViewerConnected(s, s)
    \/ \E ws \in Conns, a \in {"start", "stop"} : onViewerMessage(ws, a, "")
    \/ \E ws \in Conns, data \in AllFrames : onAgentBinary(ws, data)
    \/ \E ws \in Conns : onAgentClose(ws)
    \/ \E ws \in Conns : onViewerClose(ws)
    \/ \E ws \in Conns : onSocketEnd(ws)

InitFrames == InitState(TRUE)
SpecFrames == InitFrames /\ [][NextFrames]_vars

\* the player of one client: frames arrive, are decoded and scheduled while
\* the clock runs, and the stream is stopped and started again
StampsMs  == {0, 20, 40, 100}     \* timestamp fields of the frames, in ms
Durations == {0, 20, 40}          \* audioBuffer.duration of a decoded frame, in ms
Steps     == {20, 60}             \* clock advances, in ms
NextPlayer ==
    \/ \E dt \in Steps : Advance(dt)
    \/ start(TRUE)
    \/ stop
    \/ \E buffer \in Buffers(StampsMs) : handleBinary(buffer)
    \/ \E duration \in Durations : handleDecoded(duration)

SpecPlayer == Init /\ [][NextPlayer]_vars

\* the liveness monitor at work: connections register, pair, answer probes
\* or fall silent, and are closed.  A terminated socket emits its 'close'
\* event (weak fairness of the close handlers on ended sockets).
NextHeartbeat ==
    \/ \E d \in DeviceIds : IssueToken(TRUE, d)
    \/ \E d \in DeviceIds : onAgentConnected(d, agentSecret)
    \/ \E s \in SessionIds : onViewerConnected(s, s)
    \/ \E ws \in Conns : onViewerMessage(ws, "start", "")
    \/ \E ws \in Conns : onPong(ws)
    \/ pingAll
    \/ \E ws \in Conns : onAgentClose(ws)
    \/ \E ws \in Conns : onViewerClose(ws)

CloseEvent(ws) ==
    conns[ws].state = "ENDED" /\ (onAgentClose(ws) \/ onViewerClose(ws))

SpecHeartbeat ==
    Init /\ [][NextHeartbeat]_vars /\ \A ws \in Conns : WF_vars(CloseEvent(ws))

\* ------------------------------------------------------------- vocabulary
Active(d)        == MapGet(activeSessionByDevice, d)
IsViewer(c)      == conns[c].kind = "viewer"
IsAgent(c)       == conns[c].kind = "agent"
IsOpen(c)        == conns[c].state = "OPEN"
\* the device's registered connection is open
AgentOpen(d)     == MapHas(agents, d) /\ IsOpen(agents[d])
ErrListener      == Msg("error", "another listener is active", Undefined, << >>)
StartsIn(out)    == {i \in 1..Len(out) : out[i][2].type = "start"}
\* ws is an open viewer whose device is paired with another session
Conflicting(ws)  ==
    /\ IsViewer(ws) /\ IsOpen(ws)
    /\ Active(conns[ws].deviceId) # Undefined
    /\ Active(conns[ws].deviceId) # conns[ws].sessionId

\* C1: a device is paired with at most one session at a time, and no step
\* (in particular no `start` of a second viewer) hands the pairing of a device
\* from the session that holds it to another session.
C1_SingleListener ==
    [][\A d \in DeviceIds :
          /\ Cardinality({s \in SessionIds : Active(d) = s}) <= 1
          /\ (Active(d) # Undefined /\ MapHas(activeSessionByDevice', d))
                => activeSessionByDevice'[d] = Active(d)]_vars

\* two open viewers with different sessions of one device, one of them
\* paired, the other just refused
C1_Witness ==
    \E a \in Conns, b \in Conns :
        /\ IsViewer(a) /\ IsOpen(a) /\ Conflicting(b)
        /\ conns[a].deviceId = conns[b].deviceId
        /\ Active(conns[a].deviceId) = conns[a].sessionId
        /\ sent = << <<b, ErrListener>> >>

\* C2: when an open viewer B sends `start` while its device is paired with
\* another session, the handler transmits exactly the 'another listener is
\* active' error to B, leaves B open, leaves the pairing table as it was and
\* sends no `start` to the device.
C2_ConflictRejected ==
    [][\A ws \in Conns, m \in Modes :
          (Conflicting(ws) /\ onViewerMessage(ws, "start", m))
            => /\ sent' = << <<ws, ErrListener>> >>
               /\ conns'[ws].state = "OPEN"
               /\ activeSessionByDevice' = activeSessionByDevice
               /\ StartsIn(sent') = {}]_vars

\* B has just been refused while the device, online, stays paired with A
C2_Witness ==
    \E b \in Conns :
        /\ Conflicting(b)
        /\ AgentOpen(conns[b].deviceId)
        /\ sent = << <<b, ErrListener>> >>

\* C3: after a takeover, once the superseded connection's close event has
\* been handled, the registry maps the device to the connection that took
\* over: a device with an open connection and no connection waiting for its
\* close event is registered, with an open connection.
AgentConnsOf(d)  == {c \in Conns : IsAgent(c) /\ conns[c].deviceId = d}
C3_TakeoverSupersedes ==
    \A d \in DeviceIds :
        ((\E c \in AgentConnsOf(d) : IsOpen(c)) /\ (\A c \in AgentConnsOf(d) : IsOpen(c)))
          => AgentOpen(d)

\* C4: when a connection of device D closes while D is paired with a session
\* whose registered viewer V is open, the pairing of D is removed, exactly one
\* message, the agent_disconnected status, is transmitted, to V, and V stays
\* open and registered; and a device connecting never changes the pairing
\* table: a pairing only appears in a viewer's `start`.
ViewerOf(s)      == MapGet(viewers, s)
AgentDisconnected == Msg("status", "agent_disconnected", Undefined, << >>)
C4_DeviceCloseWhilePaired ==
    [][/\ \A ws \in Conns :
            LET d == conns[ws].deviceId
                v == ViewerOf(Active(d))
            IN (/\ IsAgent(ws) /\ Active(d) # Undefined
                /\ v # Undefined /\ IsOpen(v)
                /\ onAgentClose(ws))
                 => /\ ~MapHas(activeSessionByDevice', d)
                    /\ sent' = << <<v, AgentDisconnected>> >>
                    /\ conns'[v] = conns[v]
                    /\ viewers' = viewers
       /\ \A d \in DeviceIds, t \in {agentSecret, "bad"} :
            onAgentConnected(d, t) => activeSessionByDevice' = activeSessionByDevice
       /\ \A d \in DeviceIds :
            (~MapHas(activeSessionByDevice, d) /\ MapHas(activeSessionByDevice', d))
              => \E ws \in Conns, m \in Modes :
                    conns[ws].deviceId = d /\ onViewerMessage(ws, "start", m)]_vars

\* the device has gone, its viewer was told and is still open and registered,
\* unpaired
C4_Witness ==
    \E v \in Conns :
        /\ IsViewer(v) /\ IsOpen(v)
        /\ ViewerOf(conns[v].sessionId) = v
        /\ sent = << <<v, AgentDisconnected>> >>
        /\ Active(conns[v].deviceId) = Undefined
        /\ ~MapHas(agents, conns[v].deviceId)

\* C5: the sessions a sweep removes, and the messages of one handler
Expired(s)       == MapHas(sessions, s) /\ sessions[s].expiresAt < now
SweptPaired      == {s \in SessionIds : Expired(s) /\ Active(sessions[s].deviceId) = s}
StopsTo(out, d)  ==
    Cardinality({i \in 1..Len(out) :
        /\ out[i][2].type = "stop"
        /\ out[i][1] # Undefined
        /\ IsAgent(out[i][1]) /\ conns[out[i][1]].deviceId = d})
NoticesTo(out, v) ==
    Cardinality({i \in 1..Len(out) :
        out[i] = <<v, Msg("close", "session expired", Undefined, << >>)>>})

Rejection        == << <<Undefined, Msg("close", "invalid session", Undefined, << >>)>> >>
ValidateAsSpecified(sessionId, token) ==
    /\ sessionId # Undefined
    /\ MapHas(sessions, sessionId)
    /\ sessions[sessionId].token = token
    /\ now < sessions[sessionId].expiresAt
C6_RejectAtExpiry ==
    [][\A s \in SessionIds \cup {Undefined}, t \in SessionIds \cup {Undefined} :
          onViewerConnected(s, t) =>
             IF ValidateAsSpecified(s, t)
             THEN sent' # Rejection /\ MapHas(viewers', s)
             ELSE /\ sent' = Rejection
                  /\ UNCHANGED <<viewers, conns, heartbeats, activeSessionByDevice,
                                 agents, sessions>>]_vars

\* C7: a sessionId never has two accepted viewer connections.
ViewerConnsOf(s) == {c \in Conns : IsViewer(c) /\ conns[c].sessionId = s}
C7_OneViewerPerSession ==
    \A s \in SessionIds : Cardinality(ViewerConnsOf(s)) <= 1

\* C8: binary frames
IsAudio(data)    == Len(data) >= 1 /\ data[1] = 1
Binary(data)     == Msg("binary", "", Undefined, data)
BinaryIn(out)    == {i \in 1..Len(out) : out[i][2].type = "binary"}
Tables           == <<now, issued, sessions, agents, viewers, activeSessionByDevice,
                      heartbeats, conns>>

\* C8 as claimed: a frame arriving from a device is transmitted, unchanged,
\* to the viewer connection of the device's pairing if and only if the device
\* is paired at arrival and the frame's first byte is 0x01; otherwise nothing
\* is transmitted.  (Stated for the arrivals at which the paired session has
\* one viewer connection, the registered one, or the device no pairing.)
C8_ForwardIffPaired ==
    [][\A ws \in Conns, data \in AllFrames :
          onAgentBinary(ws, data) =>
             LET s == Active(conns[ws].deviceId)
             IN (s # Undefined => ViewerConnsOf(s) = {ViewerOf(s)})
                  => sent' = IF s # Undefined /\ IsAudio(data)
                             THEN << <<ViewerOf(s), Binary(data)>> >>
                             ELSE << >>]_vars

\* C8 as amended: ... if and only if the device is paired at arrival, the
\* frame's first byte is 0x01 and the paired session's registered viewer
\* connection is open; otherwise nothing is transmitted.  A frame changes no
\* table (it is not queued), and no other handler transmits a frame.
C8_ForwardIffPairedAndOpen ==
    [][/\ \A ws \in Conns, data \in AllFrames :
            onAgentBinary(ws, data) =>
               LET s == Active(conns[ws].deviceId)
                   v == ViewerOf(s)
               IN /\ sent' = IF s # Undefined /\ IsAudio(data) /\ v # Undefined /\ IsOpen(v)
                             THEN << <<v, Binary(data)>> >>
                             ELSE << >>
                  /\ UNCHANGED Tables
       /\ BinaryIn(sent') # {} =>
            \E ws \in Conns, data \in AllFrames : onAgentBinary(ws, data)]_vars

\* an audio frame has just been forwarded to the open viewer of the paired
\* session while another viewer of the same device is open
C8_Witness ==
    \E v \in Conns, o \in Conns :
        /\ IsViewer(v) /\ IsOpen(v) /\ IsViewer(o) /\ IsOpen(o)
        /\ conns[o].sessionId # conns[v].sessionId
        /\ conns[o].deviceId = conns[v].deviceId
        /\ Active(conns[v].deviceId) = conns[v].sessionId
        /\ sent = << <<v, Binary(<<AUDIO_MARKER, 1>>)>> >>

\* C9: the frames transmitted to a viewer connection are a subsequence of
\* the frames its device pushed, in arrival order (every pushed frame of a
\* logged run is distinct, so a subsequence repeats none).
RECURSIVE IsSubseq(_, _)
IsSubseq(a, b) ==
    IF a = << >> THEN TRUE
    ELSE IF b = << >> THEN FALSE
    ELSE IF Head(a) = Head(b) THEN IsSubseq(Tail(a), Tail(b))
    ELSE IsSubseq(a, Tail(b))
C9_ArrivalOrder ==
    \A c \in Conns :
        IF IsViewer(c) THEN IsSubseq(received[c], emitted[conns[c].deviceId])
        ELSE received[c] = << >>

\* a viewer that got the first and the last frame of its device, but not the
\* one in between
C9_Witness ==
    \E c \in Conns :
        /\ IsViewer(c)
        /\ Len(received[c]) = 2
        /\ Len(emitted[conns[c].deviceId]) = 3
        /\ received[c] = << emitted[conns[c].deviceId][1], emitted[conns[c].deviceId][3] >>

\* C10: when a viewer whose session is the pairing of device D sends `stop`,
\* or its connection closes, while D's registered connection is open: the
\* pairing of D is removed, D stays registered and open (connection present,
\* no pairing), and exactly one message, a `stop`, is transmitted, to D.
Stop == Msg("stop", "", Undefined, << >>)
C10_ViewerStopOrClose ==
    [][\A ws \in Conns :
          LET d == conns[ws].deviceId
          IN (/\ IsViewer(ws) /\ Active(d) = conns[ws].sessionId /\ AgentOpen(d)
              /\ \/ onViewerClose(ws)
                 \/ \E m \in Modes : onViewerMessage(ws, "stop", m))
               => /\ ~MapHas(activeSessionByDevice', d)
                  /\ agents' = agents
                  /\ conns'[agents[d]] = conns[agents[d]]
                  /\ sent' = << <<agents[d], Stop>> >>]_vars

\* the device, open and registered, has just been told to stop and is
\* unpaired, its viewer still open and registered
C10_Witness ==
    \E v \in Conns, a \in Conns :
        /\ IsViewer(v) /\ IsOpen(v) /\ ViewerOf(conns[v].sessionId) = v
        /\ IsAgent(a) /\ IsOpen(a) /\ MapGet(agents, conns[v].deviceId) = a
        /\ Active(conns[v].deviceId) = Undefined
        /\ sent = << <<a, Stop>> >>

\* C11: when an open viewer sends `start` while its device has no connection
\* at all and no pairing, the handler transmits exactly the 'agent not
\* connected' error to the viewer, leaves the viewer open, and records no
\* pairing for the device.
ErrOffline == Msg("error", "agent not connected", Undefined, << >>)
C11_OfflineStartRejected ==
    [][\A ws \in Conns, m \in Modes :
          LET d == conns[ws].deviceId
          IN (/\ IsViewer(ws) /\ IsOpen(ws)
              /\ AgentConnsOf(d) = {} /\ ~MapHas(agents, d)
              /\ Active(d) = Undefined
              /\ onViewerMessage(ws, "start", m))
               => /\ sent' = << <<ws, ErrOffline>> >>
                  /\ conns'[ws].state = "OPEN"
                  /\ ~MapHas(activeSessionByDevice', d)]_vars

\* C12: within one stream, each decoded frame is scheduled no earlier than
\* the end (startAt + duration) of the frame scheduled before it, so start
\* times never decrease; and a late frame, whose targetTime and clock are
\* both at or before the play head, starts exactly at the play head.
C12_NoOverlap ==
    [][\A duration \in Durations :
          (handleDecoded(duration) /\ ~FirstOfStream)
            => LET ts     == Head(decoding).timestamp
                   target == playStart + ((ts - baseTimestampUs) \div 1000)
               IN /\ started'.startAt >= started.startAt + started.duration
                  /\ started'.startAt >= started.startAt
                  /\ (target <= playHead /\ currentTime <= playHead)
                        => started'.startAt = playHead]_vars

\* a frame whose timestamp is before the base of its stream has been
\* scheduled ahead of the clock: it started at the play head it found
C12_Witness ==
    /\ started.n >= 2
    /\ baseTimestampUs # Null
    /\ started.timestamp < baseTimestampUs
    /\ started.startAt > currentTime
    /\ playHead = started.startAt + started.duration

\* C13: in a freshly (re)started stream, the first frame enqueued for it
\* starts at playoutOrigin = clock at that frame + jitter budget; a later
\* frame that arrives promptly (clock <= targetTime), one frame duration
\* after a predecessor that started on its own target, starts exactly at the
\* predecessor's startAt + duration.
OnTarget(f) ==
    baseTimestampUs # Null
      /\ f.startAt = playStart + ((f.timestamp - baseTimestampUs) \div 1000)
C13_PromptSchedule ==
    [][\A duration \in Durations :
          (handleDecoded(duration) /\ ~Head(decoding).flushed)
            => LET ts == Head(decoding).timestamp
               IN IF FirstOfStream \/ started.flushed
                  THEN /\ playStart' = currentTime + jitterMs
                       /\ started'.startAt = playStart'
                  ELSE (/\ currentTime <= playStart + ((ts - baseTimestampUs) \div 1000)
                        /\ ts = started.timestamp + started.duration * 1000
                        /\ OnTarget(started))
                         => started'.startAt = started.startAt + started.duration]_vars

\* C14: at a probe, every registered connection whose alive flag is still
\* false (no pong since the probe before) is terminated and leaves the
\* monitor's set, and every other connection keeps its readyState (a
\* connection whose pong set the flag is not terminated); the close handling
\* of an ended connection removes it from the monitor, the registries and, if
\* it is a side of a pairing, the pairing; and that handling always comes.
Silent(c) == c \in heartbeats /\ conns[c].isAlive = FALSE
C14_Heartbeat ==
    /\ [][pingAll =>
            \A c \in Conns :
               IF Silent(c)
               THEN /\ conns[c].state \in {"OPEN", "CLOSING"} => conns'[c].state = "ENDED"
                    /\ c \notin heartbeats'
               ELSE conns'[c].state = conns[c].state]_vars
    /\ [][\A ws \in Conns :
            (conns[ws].state = "ENDED" /\ (onAgentClose(ws) \/ onViewerClose(ws)))
              => /\ ws \notin heartbeats'
                 /\ \A d \in DOMAIN agents' : agents'[d] # ws
                 /\ \A x \in DOMAIN viewers' : viewers'[x] # ws
                 /\ IsAgent(ws) => ~MapHas(activeSessionByDevice', conns[ws].deviceId)
                 /\ (IsViewer(ws) /\ Active(conns[ws].deviceId) = conns[ws].sessionId)
                       => ~MapHas(activeSessionByDevice', conns[ws].deviceId)]_vars
    /\ \A ws \in Conns : (conns[ws].state = "ENDED") ~> (conns[ws].state # "ENDED")

\* the monitor has terminated a silent, paired viewer; the device, which
\* answered, is still open
C14_Witness ==
    \E v \in Conns, a \in Conns :
        /\ IsViewer(v) /\ conns[v].state = "ENDED" /\ v \notin heartbeats
        /\ Active(conns[v].deviceId) = conns[v].sessionId
        /\ IsAgent(a) /\ IsOpen(a) /\ a \in heartbeats /\ conns[a].isAlive = FALSE

\* C15: a device connection attempt without deviceId, or with a credential
\* that differs from the configured secret, is answered with the
\* 'unauthorized' close and changes no table: the registry, the pairings, the
\* monitor's set and every existing connection stay as they were.
Unauthorized == << <<Undefined, Msg("close", "unauthorized", Undefined, << >>)>> >>
C15_RejectedDeviceChangesNothing ==
    [][\A d \in DeviceIds \cup {Undefined}, t \in {agentSecret, "bad"} :
          (onAgentConnected(d, t) /\ (d = Undefined \/ t # agentSecret))
            => /\ sent' = Unauthorized
               /\ UNCHANGED <<agents, activeSessionByDevice, heartbeats, conns,
                              viewers, sessions>>]_vars

\* an attempt has just been rejected while a device is registered, open and
\* paired
C15_Witness ==
    /\ sent = Unauthorized
    /\ \E d \in DeviceIds : AgentOpen(d) /\ Active(d) # Undefined
                              /\ agents[d] \in heartbeats

\* C16: a sweep run again at once finds nothing to do (sessions, sockets and
\* pairings stay as the first left them and it sends nothing; the sweep never
\* touches the viewers registry); and, whatever the interleaving, in a state
\* with no socket waiting for its close event every pairing's session is in
\* the session store.
SweepAgain ==
    SweepFrom([conns |-> conns', active |-> activeSessionByDevice',
               sessions |-> sessions', sent |-> << >>], 1)
NoPendingClose == \A c \in Conns : conns[c].state \in {"OPEN", "CLOSED"}
C16_SweepSafe ==
    /\ [][cleanupExpiredSessions =>
            /\ SweepAgain.sessions = sessions'
            /\ SweepAgain.active = activeSessionByDevice'
            /\ SweepAgain.conns = conns'
            /\ SweepAgain.sent = << >>
            /\ viewers' = viewers]_vars
    /\ [](NoPendingClose =>
            \A d \in DeviceIds : Active(d) # Undefined => MapHas(sessions, Active(d)))

\* C17: a connection in the viewers registry belongs to a session that is in
\* the session store and unexpired (now < expiresAt), and no step leaves it
\* registered when that stops being so.
Unexpired(s, store, t) == MapHas(store, s) /\ t < store[s].expiresAt
C17_RegisteredViewersUnexpired ==
    [][\A s \in DOMAIN viewers :
          (Unexpired(s, sessions, now) /\ s \in DOMAIN viewers')
            => Unexpired(s, sessions', now')]_vars

\* the client at work: it starts and stops, and is given the text messages
\* the broker sends a viewer, frames, and the socket's error and close events
ServerTexts ==
    {ErrOffline, ErrListener, AgentDisconnected,
     Msg("viewer_connected", "online", Undefined, << >>),
     Msg("status", "streaming", Undefined, << >>),       \* a status the device sent
     Msg("text", "agent", Undefined, << >>)}             \* any other JSON of the device
NextClient ==
    \/ \E tokenOk \in BOOLEAN : start(tokenOk)
    \/ stop
    \/ \E msg \in ServerTexts, parsed \in BOOLEAN : handleText(msg, parsed)
    \/ \E buffer \in Buffers({0}) : handleBinary(buffer)
    \/ onerror
    \/ onclose

SpecClient == Init /\ [][NextClient]_vars

\* C18: the four failure situations (start refused because the device is
\* not connected, start refused because another listener is active, the
\* device disconnected mid-stream, a transport error or close) are reported
\* with pairwise different status values.
FailureOf(event) ==
    CASE event = ErrOffline           -> "device not connected"
      [] event = ErrListener          -> "another listener"
      [] event = AgentDisconnected    -> "agent disconnected"
      [] event = Event("onerror")     -> "transport"
      [] event = Event("onclose")     -> "transport"
      [] OTHER                        -> "none"
C18_DistinctFailureStatus ==
    \A p \in reported, q \in reported :
        (/\ FailureOf(p[1]) # "none" /\ FailureOf(q[1]) # "none"
         /\ FailureOf(p[1]) # FailureOf(q[1]))
          => p[2] # q[2]

\* C19: whenever the pairing table has an entry for a device, the agents
\* registry holds an open connection for that device and the viewers registry
\* holds a connection for the entry's session.
C19_PairedHasBothSides ==
    \A d \in DeviceIds :
        Active(d) # Undefined => (AgentOpen(d) /\ MapHas(viewers, Active(d)))

\* C20: the output of a chunk that was enqueued before a reset and is
\* delivered after it is neither scheduled nor made the base of the new
\* stream: base and playout origin stay to be set by the first frame enqueued
\* after the reset.
C20_FlushedFrameDiscarded ==
    [][\A duration \in Durations :
          (handleDecoded(duration) /\ Head(decoding).flushed)
            => UNCHANGED <<baseTimestampUs, playStart, playHead, started>>]_vars

\* C21: a `stop` message from a viewer whose session is not the pairing of
\* its device (the device is unpaired, or paired with another session) leaves
\* the pairing table as it is and transmits no `stop` to the device.
C21_ForeignStopIgnored ==
    [][\A ws \in Conns :
          LET d == conns[ws].deviceId
          IN (/\ IsViewer(ws) /\ Active(d) # conns[ws].sessionId
              /\ \E m \in Modes : onViewerMessage(ws, "stop", m))
               => /\ activeSessionByDevice' = activeSessionByDevice
                  /\ StopsTo(sent', d) = 0]_vars

\* C22: every step after which a device has an open registered connection
\* and a pairing for session S, and before which that connection was not
\* already paired with S, transmits a `start` carrying S to that connection;
\* so a paired device connection has always been told to start for its session.
StartFor(out, c, s) ==
    \E i \in 1..Len(out) :
        /\ out[i][1] = c
        /\ out[i][2].type = "start"
        /\ out[i][2].sid = s
C22_PairedDeviceWasStarted ==
    [][\A d \in DeviceIds :
          (/\ AgentOpen(d)' /\ Active(d)' # Undefined
           /\ ~(AgentOpen(d) /\ agents[d] = agents'[d] /\ Active(d) = Active(d)'))
            => StartFor(sent', agents'[d], Active(d)')]_vars
====
